---- MODULE Spec2Model ----
(***************************************************************************)
(* Health-data intake service (backend/healthdata.py): the three field     *)
(* validators of HealthDataRequest, the bearer-token resolver              *)
(* get_current_user and the two handlers log_health_data (POST) and        *)
(* get_health_data (GET) over the health_data table.                       *)
(*                                                                         *)
(* Strings are sequences of one-character strings.  A float is the         *)
(* rational [num, den] it denotes exactly: a request value is a dyadic     *)
(* rational k / 2^FracBits (every such value is a double), and the result  *)
(* of round(v, 2) is identified with the decimal n / 100 whose nearest     *)
(* double Python returns.                                                  *)
(***************************************************************************)
EXTENDS Integers, Sequences, FiniteSets, TLC

VARIABLES store,    \* rows of the health_data table (committed)
          nextId,   \* the table's autoincrement sequence
          now,      \* the server clock
          author,   \* history: row id -> the caller whose request created it
          resp,     \* the last response of the sequential service
          req,      \* the in-flight requests of the concurrent service
          arg,      \* the argument of a validator / resolver under test
          ret       \* what it returned or raised

vars == <<store, nextId, now, author, resp, req, arg, ret>>

\* nothing returned yet / no response yet
Pending == [pending |-> TRUE]

----------------------------------------------------------------------------
(* Bounds of the model *)

\* fraction bits of the request floats: values are k / 2^FracBits
FracBits == 8
\* request floats range over -MaxK .. MaxK (in units of 2^-FracBits)
MaxK == 300
\* whitespace characters inserted into a base bp string
MaxWs == 2
\* rows the sequential service stores before submissions stop
MaxRecords == 3
\* requests in flight in the concurrent service
NumReqs == 3

----------------------------------------------------------------------------
(* Characters and strings *)

Digits == <<"0", "1", "2", "3", "4", "5", "6", "7", "8", "9">>

IsDigit(c) == \E i \in 1..10 : Digits[i] = c

DigitVal(c) == (CHOOSE i \in 1..10 : Digits[i] = c) - 1

\* the whitespace characters of the model's alphabet (str.isspace)
IsSpace(c) == c \in {" ", "\t", "\n"}

Last(s) == s[Len(s)]

Front(s) == SubSeq(s, 1, Len(s) - 1)

\* str.replace(old, ''), old a single character
RECURSIVE Remove(_, _)
Remove(s, c) ==
    IF s = <<>> THEN <<>>
    ELSE IF Head(s) = c THEN Remove(Tail(s), c)
    ELSE <<Head(s)>> \o Remove(Tail(s), c)

\* str.strip()
RECURSIVE LStrip(_)
LStrip(s) == IF s # <<>> /\ IsSpace(Head(s)) THEN LStrip(Tail(s)) ELSE s

RECURSIVE RStrip(_)
RStrip(s) == IF s # <<>> /\ IsSpace(Last(s)) THEN RStrip(Front(s)) ELSE s

Strip(s) == RStrip(LStrip(s))

\* str.split(sep), sep a single character
RECURSIVE SplitOn(_, _)
SplitOn(s, c) ==
    IF \A i \in 1..Len(s) : s[i] # c THEN <<s>>
    ELSE LET i == CHOOSE k \in 1..Len(s) : s[k] = c /\ \A j \in 1..(k - 1) : s[j] # c
         IN  <<SubSeq(s, 1, i - 1)>> \o SplitOn(SubSeq(s, i + 1, Len(s)), c)

\* str.split() with no argument: the maximal runs of non-whitespace
RECURSIVE SplitWs(_)
SplitWs(s) ==
    LET t == LStrip(s)
    IN  IF t = <<>> THEN <<>>
        ELSE LET n == IF \E k \in 1..Len(t) : IsSpace(t[k])
                      THEN (CHOOSE k \in 1..Len(t) :
                               IsSpace(t[k]) /\ \A j \in 1..(k - 1) : ~IsSpace(t[j])) - 1
                      ELSE Len(t)
             IN  <<SubSeq(t, 1, n)>> \o SplitWs(SubSeq(t, n + 1, Len(t)))

Upper == <<"A", "B", "C", "E", "I", "R", "S">>

Lower == <<"a", "b", "c", "e", "i", "r", "s">>

LowerChar(c) == IF \E i \in 1..Len(Upper) : Upper[i] = c
                THEN Lower[CHOOSE i \in 1..Len(Upper) : Upper[i] = c]
                ELSE c

\* a comparison that forgets to fold the case
ToLowerOmitted(s) == s

\* str.lower()
ToLower(s) == [i \in 1..Len(s) |-> LowerChar(s[i])]

\* int(s) for a string of decimal digits with surrounding whitespace
RECURSIVE DigitsVal(_)
DigitsVal(s) == IF s = <<>> THEN 0 ELSE 10 * DigitsVal(Front(s)) + DigitVal(Last(s))

PyInt(s) == DigitsVal(Strip(s))

----------------------------------------------------------------------------
(* Floats *)

Scale == 2 ^ FracBits

Float(k) == [num |-> k, den |-> Scale]

\* v <= 0
LeZero(v) == v.num <= 0

\* truncation to 2 decimal places in place of rounding
Round2Truncated(v) == [num |-> (v.num * 100) \div v.den, den |-> 100]

\* round(v, 2): the nearest multiple of 1/100 to the exact value of v,
\* an exact tie going to the even multiple
Round2(v) ==
    LET x == v.num * 100
        q == x \div v.den
        r == x % v.den
        n == IF 2 * r < v.den THEN q
             ELSE IF 2 * r > v.den THEN q + 1
             ELSE IF q % 2 = 0 THEN q ELSE q + 1
    IN  [num |-> n, den |-> 100]

----------------------------------------------------------------------------
(* HealthDataRequest: the field validators *)

Ok(v) == [ok |-> TRUE, value |-> v]

ValueError(m) == [ok |-> FALSE, msg |-> m]

validate_weight(v) ==
    IF LeZero(v) THEN ValueError("Weight must be a positive number")
    ELSE Ok(Round2(v))

\* validate_glucose without its positivity check
validate_glucose_unchecked(v) == Ok(Round2(v))

validate_glucose(v) ==
    IF LeZero(v) THEN ValueError("Glucose level must be a positive number")
    ELSE Ok(Round2(v))

\* the whole of s is \d{2,3}/\d{2,3}
FullMatch(s) ==
    \E i \in 2..3, j \in 2..3 :
        /\ Len(s) = i + 1 + j
        /\ \A k \in 1..i : IsDigit(s[k])
        /\ s[i + 1] = "/"
        /\ \A k \in (i + 2)..(i + 1 + j) : IsDigit(s[k])

\* re.match(r'^\d{2,3}/\d{2,3}$', s): '$' matches at the end of the string
\* and also just before a newline that ends the string
ReMatch(s) ==
    \/ FullMatch(s)
    \/ s # <<>> /\ Last(s) = "\n" /\ FullMatch(Front(s))

validate_blood_pressure(v0) ==
    LET v == Remove(v0, " ")
    IN  IF ~ReMatch(v)
        THEN ValueError("Blood pressure must be in format systolic/diastolic")
        ELSE LET parts == SplitOn(v, "/")
                 systolic == PyInt(parts[1])
                 diastolic == PyInt(parts[2])
             IN  IF systolic < 70 \/ systolic > 250
                 THEN ValueError("Systolic pressure must be between 70 and 250")
                 ELSE IF diastolic < 40 \/ diastolic > 150
                 THEN ValueError("Diastolic pressure must be between 40 and 150")
                 ELSE Ok(v)

----------------------------------------------------------------------------
(* get_current_user: the bearer-token resolver *)

\* the users table: the ids of the existing User rows
Users == {1, 2}

\* the tokens of the model.  "a" and "b" were issued to users 1 and 2, "c"
\* to a user whose row is gone, "n" verifies but carries no "sub" claim,
\* "x" fails verification.
TokenOf(c) == IF c = 1 THEN <<"a">> ELSE IF c = 2 THEN <<"b">> ELSE <<"c">>

\* utils.decode_access_token: the claim set of a token that verifies, or
\* None (the empty function here) for one that does not
decode_access_token(token) ==
    IF \E c \in 1..3 : token = TokenOf(c)
    THEN [sub |-> CHOOSE c \in 1..3 : token = TokenOf(c), exp |-> "later"]
    ELSE IF token = <<"n">> THEN [exp |-> "later"]
    ELSE <<>>

\* `not payload`: None and the empty dict are both false
Falsy(payload) == DOMAIN payload = {}

\* payload.get("sub"): the value, or None (the empty set here)
GetSub(payload) == IF "sub" \in DOMAIN payload THEN {payload.sub} ELSE {}

\* db.query(User).filter(User.id == user_id).first(): the row, or None
QueryUser(user_id) == {[id |-> u] : u \in {x \in Users : x \in user_id}}

\* Header(None): the Authorization header of a request, if it has one
NoHeader == [present |-> FALSE, value |-> <<>>]

Hdr(s) == [present |-> TRUE, value |-> s]

HTTPException(code, detail) == [ok |-> FALSE, status |-> code, detail |-> detail]

Resolved(user) == [ok |-> TRUE, user |-> user]

get_current_user(authorization) ==
    IF ~authorization.present \/ authorization.value = <<>>
    THEN HTTPException(401, "Token missing")
    ELSE LET parts == SplitWs(authorization.value)
         IN  IF Len(parts) # 2 \/ ToLower(parts[1]) # <<"b", "e", "a", "r", "e", "r">>
             THEN HTTPException(401, "Invalid authorization header")
             ELSE LET token == parts[2]
                      payload == decode_access_token(token)
                  IN  IF Falsy(payload)
                      THEN HTTPException(401, "Invalid or expired token")
                      ELSE LET user_id == GetSub(payload)
                               user == QueryUser(user_id)
                           IN  IF user = {}
                               THEN HTTPException(401, "User not found")
                               ELSE Resolved(CHOOSE u \in user : TRUE)

Schemes == { <<"B", "e", "a", "r", "e", "r">>, <<"b", "e", "a", "r", "e", "r">>,
             <<"B", "E", "A", "R", "E", "R">>, <<"b", "E", "a", "R", "e", "r">>,
             <<"B", "a", "s", "i", "c">>, <<"B", "e", "a", "r", "e">>,
             <<"B", "e", "a", "r", "e", "r", "s">> }

Tokens == { <<"a">>, <<"b">>, <<"c">>, <<"n">>, <<"x">>, <<"a", "b">>, <<>> }

Gaps == { <<>>, <<" ">>, <<" ", " ">>, <<"\t">> }

Tails == { <<>>, <<" ">>, <<" ", "a">> }

\* the Authorization headers a client may send
AuthHeaders ==
    {NoHeader, Hdr(<<>>), Hdr(<<" ">>)}
        \cup {Hdr(lead \o s \o g \o t \o e) :
                lead \in {<<>>, <<" ">>}, s \in Schemes, g \in Gaps, t \in Tokens, e \in Tails}

----------------------------------------------------------------------------
(* The handlers and the health_data table *)

\* HealthDataRequest(**body): every field validator runs; the request is
\* rejected with 422 naming each field whose validator raised
HealthDataRequest(body) ==
    LET w == validate_weight(body.weight)
        b == validate_blood_pressure(body.bp)
        g == validate_glucose(body.glucose)
        errors == {f \in {"weight", "bp", "glucose"} :
                      \/ f = "weight" /\ ~w.ok
                      \/ f = "bp" /\ ~b.ok
                      \/ f = "glucose" /\ ~g.ok}
    IN  IF errors = {}
        THEN [ok |-> TRUE, data |-> [weight |-> w.value, bp |-> b.value, glucose |-> g.value]]
        ELSE [ok |-> FALSE, status |-> 422, errors |-> errors]

\* HealthData(patient_id=..., weight=..., bp=..., glucose=...)
HealthData(patient_id, weight, bp, glucose) ==
    [patient_id |-> patient_id, weight |-> weight, bp |-> bp, glucose |-> glucose]

\* an entry built with weight and glucose exchanged
new_entry_swapped(current_user, data) ==
    HealthData(current_user.id, data.glucose, data.bp, data.weight)

\* the entry log_health_data builds for the resolved user and the validated body
new_entry(current_user, data) ==
    HealthData(current_user.id, data.weight, data.bp, data.glucose)

\* the row the table holds for an added entry once committed: the id is the
\* next of the table's sequence, the timestamp the time of the insert
Flush(entry, id, time) ==
    [id |-> id, patient_id |-> entry.patient_id, weight |-> entry.weight,
     bp |-> entry.bp, glucose |-> entry.glucose, timestamp |-> time]

\* an insert that replaces the patient's earlier rows
AddCommitReplacing(table, row) == {r \in table : r.patient_id # row.patient_id} \cup {row}

\* db.add(new_entry); db.commit(): the table with the row inserted
AddCommit(table, row) == table \cup {row}

\* a refresh that reads the newest row of the table, not the entry's own
RefreshNewest(table, id) == CHOOSE r \in table : \A o \in table : o.id <= r.id

\* db.refresh(new_entry): the entry as the table now holds it
Refresh(table, id) == CHOOSE r \in table : r.id = id

\* the query without its filter
get_health_data_unfiltered(table, current_user) == table

\* db.query(HealthData).filter(HealthData.patient_id == current_user.id).all()
get_health_data(table, current_user) == {r \in table : r.patient_id = current_user.id}

\* response_model=List[HealthDataResponse]: the fields a listed row shows
HealthDataResponse(r) ==
    [id |-> r.id, weight |-> r.weight, bp |-> r.bp, glucose |-> r.glucose,
     timestamp |-> r.timestamp]

\* who sends requests: users 1 and 2, caller 3 whose User row is gone, and
\* caller 0 who holds no token
Callers == 0..3

Bearer(t) == <<"B", "e", "a", "r", "e", "r", " ">> \o t

\* the headers caller c sends: caller 0 none, a scheme alone or a token that
\* does not verify; the others their own token
HeadersOf(c) ==
    IF c = 0
    THEN {NoHeader, Hdr(<<"B", "e", "a", "r", "e", "r">>), Hdr(Bearer(<<"x">>))}
    ELSE IF c = 2
    THEN {Hdr(<<"b", "e", "a", "r", "e", "r", "\t">> \o TokenOf(c))}
    ELSE {Hdr(Bearer(TokenOf(c)))}

Body(w, bp, g) == [weight |-> Float(w), bp |-> bp, glucose |-> Float(g)]

\* the JSON bodies sent: two that validate (the second with the smallest
\* positive weight and a newline ending its bp) and three that do not
Bodies ==
    { Body(96, <<"1", " ", "2", "0", "/", " ", "8", "0">>, 97),
      Body(1, <<"1", "2", "0", "/", "8", "0", "\n">>, 32),
      Body(0, <<"1", "2", "0", "-", "8", "0">>, -1),
      Body(96, <<"1", "\t", "2", "0", "/", "8", "0">>, 97),
      Body(96, <<"1", "2", "0", "/", "8", "0">>, 0) }

NoResp == [kind |-> "none", caller |-> 0, status |-> 0]

Init ==
    /\ store = {}
    /\ nextId = 1
    /\ now = 0
    /\ author = <<>>
    /\ resp = NoResp
    /\ req = <<>>
    /\ arg = Pending
    /\ ret = Pending

\* POST /healthdata/ by caller c with Authorization header h and JSON body:
\* the dependencies are resolved and the body validated before the handler
\* runs; the handler inserts one row and returns its id
Submit(c, h, body) ==
    LET auth == get_current_user(h)
        valid == HealthDataRequest(body)
        sent == [kind |-> "submit", caller |-> c, header |-> h, body |-> body]
    IN  /\ Cardinality(store) < MaxRecords
        /\ IF ~auth.ok
           THEN /\ resp' = sent @@ [status |-> auth.status, detail |-> auth.detail]
                /\ UNCHANGED <<store, nextId, now, author>>
           ELSE IF ~valid.ok
           THEN /\ resp' = sent @@ [status |-> valid.status, errors |-> valid.errors]
                /\ UNCHANGED <<store, nextId, now, author>>
           ELSE LET row == Flush(new_entry(auth.user, valid.data), nextId, now + 1)
                IN  /\ store' = AddCommit(store, row)
                    /\ nextId' = nextId + 1
                    /\ now' = now + 1
                    /\ author' = author @@ (row.id :> c)
                    /\ resp' = sent @@ [status |-> 200,
                                        message |-> "Health data recorded",
                                        data_id |-> Refresh(store', row.id).id]
        /\ UNCHANGED <<req, arg, ret>>

\* GET /healthdata/ by caller c with Authorization header h
List(c, h) ==
    LET auth == get_current_user(h)
        sent == [kind |-> "list", caller |-> c, header |-> h]
    IN  /\ IF ~auth.ok
           THEN resp' = sent @@ [status |-> auth.status, detail |-> auth.detail]
           ELSE resp' = sent @@ [status |-> 200,
                                 rows |-> {HealthDataResponse(r) :
                                              r \in get_health_data(store, auth.user)}]
        /\ UNCHANGED <<store, nextId, now, author, req, arg, ret>>

SubmitAny == \E c \in Callers : \E h \in HeadersOf(c) : \E body \in Bodies : Submit(c, h, body)

ListAny == \E c \in Callers : \E h \in HeadersOf(c) : List(c, h)

Next == SubmitAny \/ ListAny

Spec == Init /\ [][Next]_vars

----------------------------------------------------------------------------
(* Concurrent requests: each request holds its own session and takes the   *)
(* steps of its dependencies and its handler one at a time, interleaved    *)
(* with the steps of the others.                                           *)

Reqs == 1..NumReqs

ValidBody == Body(96, <<"1", " ", "2", "0", "/", " ", "8", "0">>, 97)

InvalidBody == Body(96, <<"1", "2", "0", "/", "8", "0">>, 0)

Incoming(kind, c, h, body) ==
    [kind |-> kind, caller |-> c, header |-> h, body |-> body, pc |-> "start"]

\* the requests that arrive together
Arrivals ==
    {Incoming("submit", c, Hdr(Bearer(TokenOf(c))), ValidBody) : c \in Users}
        \cup {Incoming("submit", 1, Hdr(Bearer(TokenOf(1))), InvalidBody),
              Incoming("submit", 0, Hdr(Bearer(<<"x">>)), ValidBody)}
        \cup {Incoming("list", c, Hdr(Bearer(TokenOf(c))), ValidBody) : c \in Users}

InitConc ==
    /\ store = {}
    /\ nextId = 1
    /\ now = 0
    /\ author = <<>>
    /\ resp = NoResp
    /\ req \in [Reqs -> Arrivals]
    /\ arg = Pending
    /\ ret = Pending

ConcUnchanged == UNCHANGED <<store, nextId, now, author, resp, arg, ret>>

\* request r at its next step, with the fields of upd set
Goto(r, pc, upd) == [pc |-> pc] @@ upd @@ r

\* Depends(get_current_user) of request i: the token is decoded and the
\* user looked up
ResolveUser(i) ==
    LET auth == get_current_user(req[i].header)
    IN  /\ req[i].pc = "start"
        /\ req' = [req EXCEPT ![i] =
                     IF auth.ok THEN Goto(@, "authed", [user |-> auth.user])
                     ELSE Goto(@, "done", [status |-> auth.status, detail |-> auth.detail])]
        /\ ConcUnchanged

\* the body of submit request i is validated
ValidateBody(i) ==
    LET valid == HealthDataRequest(req[i].body)
    IN  /\ req[i].pc = "authed"
        /\ req[i].kind = "submit"
        /\ req' = [req EXCEPT ![i] =
                     IF valid.ok THEN Goto(@, "valid", [data |-> valid.data])
                     ELSE Goto(@, "done", [status |-> valid.status, errors |-> valid.errors])]
        /\ ConcUnchanged

\* new_entry = HealthData(...); db.add(new_entry): pending in i's session
Add(i) ==
    /\ req[i].pc = "valid"
    /\ req' = [req EXCEPT ![i] =
                 Goto(@, "added", [entry |-> new_entry(req[i].user, req[i].data)])]
    /\ ConcUnchanged

\* db.commit(): the pending entry of i's session becomes a row of the table
Commit(i) ==
    LET row == Flush(req[i].entry, nextId, now + 1)
    IN  /\ req[i].pc = "added"
        /\ store' = AddCommit(store, row)
        /\ nextId' = nextId + 1
        /\ now' = now + 1
        /\ author' = author @@ (row.id :> req[i].caller)
        /\ req' = [req EXCEPT ![i] = Goto(@, "committed", [entry |-> row])]
        /\ UNCHANGED <<resp, arg, ret>>

\* db.refresh(new_entry) and the response of submit request i
RefreshReturn(i) ==
    /\ req[i].pc = "committed"
    /\ req' = [req EXCEPT ![i] =
                 LET entry == Refresh(store, req[i].entry.id)
                 IN  Goto(@, "done", [entry |-> entry, status |-> 200,
                                      message |-> "Health data recorded",
                                      data_id |-> entry.id])]
    /\ ConcUnchanged

\* the query and the response of list request i
QueryReturn(i) ==
    /\ req[i].pc = "authed"
    /\ req[i].kind = "list"
    /\ req' = [req EXCEPT ![i] =
                 Goto(@, "done", [status |-> 200,
                                  rows |-> {HealthDataResponse(r) :
                                               r \in get_health_data(store, req[i].user)}])]
    /\ ConcUnchanged

NextConc ==
    \E i \in Reqs :
        \/ ResolveUser(i)
        \/ ValidateBody(i)
        \/ Add(i)
        \/ Commit(i)
        \/ RefreshReturn(i)
        \/ QueryReturn(i)

SpecConc == InitConc /\ [][NextConc]_vars

----------------------------------------------------------------------------
(* The validators and the resolver applied to request values *)

\* str(n), n a natural number
RECURSIVE Str(_)
Str(n) == IF n < 10 THEN <<Digits[n + 1]>> ELSE Str(n \div 10) \o <<Digits[(n % 10) + 1]>>

SysStrs == {Str(n) : n \in {9, 69, 70, 120, 250, 251}} \cup {<<"0">> \o Str(120)}

DiaStrs == {Str(n) : n \in {9, 39, 40, 80, 150, 151}} \cup {<<"0">> \o Str(80)}

BpBases == {s \o sep \o d : s \in SysStrs, sep \in {<<"/">>, <<"-">>}, d \in DiaStrs}

InsertAt(s, p, c) == SubSeq(s, 1, p) \o <<c>> \o SubSeq(s, p + 1, Len(s))

\* the number of whitespace characters of s
RECURSIVE CountWs(_)
CountWs(s) == IF s = <<>> THEN 0 ELSE (IF IsSpace(Head(s)) THEN 1 ELSE 0) + CountWs(Tail(s))

FloatInputs == {Float(k) : k \in (-MaxK)..MaxK}

\* the values every other variable keeps while one function is exercised
Idle == /\ store = {}
        /\ nextId = 1
        /\ now = 0
        /\ author = <<>>
        /\ resp = NoResp
        /\ req = <<>>

IdleUnchanged == UNCHANGED <<store, nextId, now, author, resp, req>>

InitBp == Idle /\ arg \in BpBases /\ ret = Pending

\* the client puts one more whitespace character into the bp string it sends
TypeWs ==
    /\ ret = Pending
    /\ CountWs(arg) < MaxWs
    /\ \E p \in 0..Len(arg), c \in {" ", "\t", "\n"} : arg' = InsertAt(arg, p, c)
    /\ UNCHANGED ret
    /\ IdleUnchanged

CallBp ==
    /\ ret = Pending
    /\ ret' = validate_blood_pressure(arg)
    /\ UNCHANGED arg
    /\ IdleUnchanged

NextBp == TypeWs \/ CallBp

SpecBp == InitBp /\ [][NextBp]_vars

InitNum == Idle /\ arg \in FloatInputs /\ ret = Pending

CallWeight ==
    /\ ret = Pending
    /\ ret' = [field |-> "weight", res |-> validate_weight(arg)]
    /\ UNCHANGED arg
    /\ IdleUnchanged

CallGlucose ==
    /\ ret = Pending
    /\ ret' = [field |-> "glucose", res |-> validate_glucose(arg)]
    /\ UNCHANGED arg
    /\ IdleUnchanged

NextNum == CallWeight \/ CallGlucose

SpecNum == InitNum /\ [][NextNum]_vars

InitAuth == Idle /\ arg \in AuthHeaders /\ ret = Pending

CallAuth ==
    /\ ret = Pending
    /\ ret' = get_current_user(arg)
    /\ UNCHANGED arg
    /\ IdleUnchanged

SpecAuth == InitAuth /\ [][CallAuth]_vars

----------------------------------------------------------------------------
(* Properties of the resolver and the validators *)

\* s is exactly two whitespace-separated parts, s[i..j] and s[k..l]
TwoParts(s, i, j, k, l) ==
    /\ 1 <= i /\ i <= j /\ j + 1 < k /\ k <= l /\ l <= Len(s)
    /\ \A n \in 1..Len(s) : IsSpace(s[n]) <=> ~(n \in i..j \/ n \in k..l)

IsBearer(w) ==
    /\ Len(w) = 6
    /\ w[1] \in {"b", "B"} /\ w[2] \in {"e", "E"} /\ w[3] \in {"a", "A"}
    /\ w[4] \in {"r", "R"} /\ w[5] \in {"e", "E"} /\ w[6] \in {"r", "R"}

WellFormed(s) ==
    \E i, j, k, l \in 1..Len(s) : TwoParts(s, i, j, k, l) /\ IsBearer(SubSeq(s, i, j))

TokenIn(s) ==
    LET q == CHOOSE q \in (1..Len(s)) \X (1..Len(s)) \X (1..Len(s)) \X (1..Len(s)) :
                TwoParts(s, q[1], q[2], q[3], q[4])
    IN  SubSeq(s, q[3], q[4])

\* the outcome the contract names for header h
Classified(h) ==
    IF ~h.present \/ Len(h.value) = 0 THEN "Token missing"
    ELSE IF ~WellFormed(h.value) THEN "Invalid authorization header"
    ELSE IF DOMAIN decode_access_token(TokenIn(h.value)) = {} THEN "Invalid or expired token"
    ELSE IF ~("sub" \in DOMAIN decode_access_token(TokenIn(h.value))) THEN "User not found"
    ELSE IF decode_access_token(TokenIn(h.value)).sub \notin Users THEN "User not found"
    ELSE "User"

\* C2: get_current_user classifies every Authorization header into exactly
\* one outcome, in the order: missing or empty -> 401 "Token missing"; not
\* two whitespace-separated parts or first part not "bearer" in any case ->
\* 401 "Invalid authorization header"; token rejected by the decoder -> 401
\* "Invalid or expired token"; subject matching no User -> 401 "User not
\* found"; otherwise the User whose id is the token's subject.
C2_HeaderClassification ==
    ret # Pending =>
        IF Classified(arg) = "User"
        THEN /\ ret.ok
             /\ ret.user.id = decode_access_token(TokenIn(arg.value)).sub
             /\ ret.user.id \in Users
        ELSE /\ ~ret.ok
             /\ ret.status = 401
             /\ ret.detail = Classified(arg)

\* a header in mixed case with a tab between its two parts resolves a user
C2_Witness ==
    /\ ret # Pending
    /\ ret.ok
    /\ arg.value = <<"b", "E", "a", "R", "e", "r", "\t", "b">>
    /\ ret.user.id = 2

\* all whitespace removed
NoWs(s) == SelectSeq(s, LAMBDA c : ~IsSpace(c))

\* s is <2-3 digits>/<2-3 digits>, nothing else, the numbers in range
InRangePair(s) ==
    \E i \in 2..3 :
        /\ Len(s) \in (i + 3)..(i + 4)
        /\ s[i + 1] = "/"
        /\ \A k \in 1..Len(s) : k # i + 1 => IsDigit(s[k])
        /\ DigitsVal(SubSeq(s, 1, i)) \in 70..250
        /\ DigitsVal(SubSeq(s, i + 2, Len(s))) \in 40..150

\* C3: validate_blood_pressure accepts a bp string if and only if, with its
\* whitespace stripped, it is exactly <2-3 digits>/<2-3 digits> with the
\* systolic in [70,250] and the diastolic in [40,150].
C3_BpAcceptedIffPattern ==
    ret # Pending => (ret.ok <=> InRangePair(NoWs(arg)))

\* C5: weight and glucose <= 0 fail with a ValidationError; a value > 0 is
\* stored as that value rounded to 2 decimal places (the multiple of 1/100
\* nearest to it).
C5_PositiveRounded ==
    ret # Pending =>
        IF arg.num <= 0 THEN ~ret.res.ok
        ELSE /\ ret.res.ok
             /\ ret.res.value.den = 100
             /\ LET d == ret.res.value.num * arg.den - arg.num * 100
                IN  2 * d <= arg.den /\ 2 * d >= -arg.den

\* glucose 0.37890625 (97/256) is stored as 0.38
C5_Witness ==
    /\ ret # Pending
    /\ ret.field = "glucose"
    /\ arg.num * 256 = 97 * arg.den
    /\ ret.res.ok
    /\ ret.res.value.num = 38

----------------------------------------------------------------------------
(* Properties of the handlers and the table *)

\* the rows whose creating request was sent by caller c
CreatedBy(c) == {r \in store : author[r.id] = c}

\* C1: a list request authenticated as user u returns exactly the records
\* created by u's own successful submissions: all of them, and none that a
\* different user submitted.
C1_ListExactlyOwn ==
    resp.kind = "list" /\ resp.status = 200 =>
        /\ resp.caller \in Users
        /\ resp.rows = {HealthDataResponse(r) : r \in CreatedBy(resp.caller)}

\* a list that shows the caller's row while the table holds another user's
C1_Witness ==
    /\ resp.kind = "list"
    /\ resp.status = 200
    /\ resp.rows # {}
    /\ \E r \in store : author[r.id] # resp.caller

\* C4: every persisted bp is in normalized form: no whitespace character of
\* any kind, exactly 2-3 digits, '/', 2-3 digits, systolic in [70,250] and
\* diastolic in [40,150].
C4_StoredBpNormalized ==
    \A r \in store :
        /\ \A k \in 1..Len(r.bp) : ~IsSpace(r.bp[k])
        /\ InRangePair(r.bp)

\* C6: every persisted record has weight > 0 and glucose > 0, each with at
\* most 2 fraction digits.
C6_StoredPositive ==
    \A r \in store :
        /\ r.weight.den = 100 /\ r.weight.num > 0
        /\ r.glucose.den = 100 /\ r.glucose.num > 0

\* the request behind response r fails authentication or has an invalid field
Rejected(r) ==
    \/ r.status # 200
    \/ Classified(r.header) # "User"
    \/ r.body.weight.num <= 0
    \/ r.body.glucose.num <= 0
    \/ ~InRangePair(NoWs(r.body.bp))

\* C7: a submit request that fails with 401 or 422, or whose caller is
\* unauthenticated or whose payload has any invalid field, persists nothing:
\* the stored records are the same before and after it.
C7_FailedSubmitPersistsNothing ==
    [][resp'.kind = "submit" /\ Rejected(resp') =>
          /\ resp'.status \in {401, 422}
          /\ store' = store
          /\ nextId' = nextId]_vars

\* a submit rejected for all three fields while the table holds a row
C7_Witness ==
    /\ resp.kind = "submit"
    /\ resp.status = 422
    /\ resp.errors = {"weight", "bp", "glucose"}
    /\ store # {}

\* C8: the table is append-only: no row is ever changed or removed, a list
\* request changes nothing, and a successful submit adds exactly one row.
C8_AppendOnly ==
    [][/\ store \subseteq store'
       /\ resp'.kind = "list" => store' = store
       /\ resp'.kind = "submit" /\ resp'.status = 200 =>
              Cardinality(store' \ store) = 1]_vars

\* a list answered once the table holds two rows of its caller
C8_Witness ==
    /\ resp.kind = "list"
    /\ resp.status = 200
    /\ Cardinality(resp.rows) = 2
    /\ Cardinality(store) = MaxRecords

\* C10: a successful submit creates one new record whose patient reference
\* is the id of the User get_current_user resolved for the request, whose
\* weight, bp and glucose are the validated payload values, and whose id is
\* the data_id returned and the id of no other stored record.
C10_SubmitCreatesOwnRecord ==
    [][resp'.kind = "submit" /\ resp'.status = 200 =>
          \E r \in store' \ store :
              /\ r.id = resp'.data_id
              /\ r.patient_id = get_current_user(resp'.header).user.id
              /\ r.patient_id = resp'.caller
              /\ r.patient_id \in Users
              /\ r.weight = validate_weight(resp'.body.weight).value
              /\ r.bp = validate_blood_pressure(resp'.body.bp).value
              /\ r.glucose = validate_glucose(resp'.body.glucose).value
              /\ \A o \in store' : o.id = r.id => o = r]_vars

\* the second submission answered with the id of the second row
C10_Witness ==
    /\ resp.kind = "submit"
    /\ resp.status = 200
    /\ resp.data_id = 2
    /\ Cardinality(store) = 2

\* the submit requests whose entry is committed
Committed ==
    {i \in Reqs : /\ req[i].kind = "submit"
                  /\ \/ req[i].pc = "committed"
                     \/ req[i].pc = "done" /\ req[i].status = 200}

\* every committed submission has its own row, none lost and none merged
OwnRows ==
    /\ \A i \in Committed :
          /\ req[i].entry \in store
          /\ req[i].entry.patient_id = req[i].caller
          /\ author[req[i].entry.id] = req[i].caller
          /\ req[i].entry.weight = validate_weight(req[i].body.weight).value
          /\ req[i].entry.bp = validate_blood_pressure(req[i].body.bp).value
          /\ req[i].entry.glucose = validate_glucose(req[i].body.glucose).value
          /\ req[i].pc = "done" => req[i].data_id = req[i].entry.id
    /\ \A i, j \in Committed : i # j => req[i].entry.id # req[j].entry.id
    /\ Cardinality(store) = Cardinality(Committed)

\* a list answers with the rows its caller's submissions have committed
ListsOwn ==
    \A i \in Reqs :
        req[i].kind = "list" /\ req[i].pc = "authed" /\ req'[i].pc = "done" =>
            req'[i].rows = {HealthDataResponse(r) : r \in CreatedBy(req[i].caller)}

\* C9: with the steps of concurrent requests interleaved in any order, each
\* user's list shows that user's own records, all of them and no others, and
\* every submission, also of the same user, yields its own separate record.
C9_ConcurrentIsolation == []OwnRows /\ [][ListsOwn]_vars

\* two submissions of user 1 committed one after the other before either was
\* refreshed, then listed by user 1
C9_Witness ==
    /\ \E i, j \in Reqs :
          /\ i # j
          /\ req[i].kind = "submit" /\ req[i].pc = "done" /\ req[i].caller = 1
          /\ req[i].status = 200
          /\ req[j].kind = "submit" /\ req[j].pc = "committed" /\ req[j].caller = 1
          /\ req[j].entry.id < req[i].entry.id
    /\ \E k \in Reqs :
          /\ req[k].kind = "list" /\ req[k].pc = "done" /\ req[k].caller = 1
          /\ req[k].status = 200
          /\ Cardinality(req[k].rows) = 2

====
